---- MODULE Spec2Model ----
(***************************************************************************)
(* Model of the context / graph-assembly subsystem of ngcsimlib:           *)
(* the Context class (src/ngcsimlib/context.py), the scope registry it     *)
(* calls into, and the serializability helper of src/ngclib/utils.py.      *)
(***************************************************************************)
EXTENDS Integers, Sequences, FiniteSets, TLC

(***************************************************************************)
(* Bounds of the model                                                     *)
(***************************************************************************)
\* number of Context instances that may be allocated
MaxCtx == 2
\* depth of nested `with` blocks followed by the nesting specification
MaxDepth == 3
\* number of operations of a run of the full specification
MaxSteps == 3
\* length of the positional argument list of register_component
MaxArgs == 2
\* number of names passed to get_components / compile_command_key
MaxNames == 2
\* length of the ops log
MaxOps == 1

(***************************************************************************)
(* Python values.  Every value is a record of the same shape so that any   *)
(* two values can be compared: t is the type tag, n an integer payload (or *)
(* the identity of an opaque object), s a string payload, d a dict payload *)
(* (string keys).                                                          *)
(***************************************************************************)
EmptyMap == [k \in {} |-> 0]

\* F applied to the value of v, which is computed once
Bind(v, F(_)) == CHOOSE r \in {F(x) : x \in {v}} : TRUE

PyNone == [t |-> "none", n |-> 0, s |-> "", d |-> EmptyMap]

PyInt(i) == [t |-> "int", n |-> i, s |-> "", d |-> EmptyMap]

PyStr(str) == [t |-> "str", n |-> 0, s |-> str, d |-> EmptyMap]

PyDict(f) == [t |-> "dict", n |-> 0, s |-> "", d |-> f]

\* a tuple, its items keyed by position
PyTuple(f) == [t |-> "tuple", n |-> 0, s |-> "", d |-> f]

\* an opaque object (a command, a callable, an array ...), known by identity
PyObj(i) == [t |-> "obj", n |-> i, s |-> "", d |-> EmptyMap]

\* the names given to contexts
CtxNames == {"a", "b", "a/b"}

\* component objects handed to a context: Comp1 and Comp2 are two objects
\* with the same name and the same path
Comp1 == [id |-> 1, name |-> "c1", path |-> "/a/c1", klass |-> "Foo"]

Comp2 == [id |-> 2, name |-> "c1", path |-> "/a/c1", klass |-> "Bar"]

Comp3 == [id |-> 3, name |-> "c2", path |-> "/a/c2", klass |-> "Foo"]

Components == {Comp1, Comp2, Comp3}

\* names asked of get_components ("zz" is never the name of a component)
CompNames == {"c1", "c2", "zz"}

\* command objects handed to add_command, with their internal name
Cmd1 == [obj |-> PyObj(1), name |-> "run"]

Cmd2 == [obj |-> PyObj(2), name |-> "path"]

Commands == {Cmd1, Cmd2}

\* names under which commands are registered ("path" is also the name of an
\* attribute __init__ sets)
CmdNames == {"run", "path"}

CompileKeys == {"advance"}

\* positional and keyword arguments of component constructors
ArgVals == {PyInt(1), PyStr("h"), PyObj(7)}

KwKeys == {"alpha", "beta"}

KwVals == {PyInt(1), PyObj(7), PyDict([k \in {"f"} |-> PyObj(7)])}

\* op descriptors as produced by op.dump()
\* an entry of an op descriptor's sources: a compartment reference string ...
Ref(s) == [ref |-> s, op |-> <<>>]

\* ... or a nested op descriptor (a dict)
Nested(op_spec) == [ref |-> "", op |-> <<op_spec>>]

Ops == {[class |-> "Add", sources |-> <<Ref("c1.out"), Ref("c2.out")>>,
         destination |-> PyStr("c1.in")]}

\* all sequences over S of length at most n
SeqsUpTo(S, n) == UNION {[1..k -> S] : k \in 0..n}

\* all dicts with keys among K and values in V
DictsOver(K, V) == UNION {[D -> V] : D \in SUBSET K}

VARIABLES
    contexts,       \* the registry: absolute path -> Context instance
    current_path,   \* the active-path cursor
    ctx,            \* the Context instances, by identity (1..Len(ctx))
    last,           \* the last operation performed and what it returned
    made,           \* history: <<active path, name>> -> instance first returned
    stack,          \* history: the open `with` blocks, innermost last
    steps,          \* number of operations performed (full specification)
    Loaded_Modules,     \* ngclib.utils._Loaded_Modules: request key -> module
    Loaded_Attributes,  \* ngclib.utils._Loaded_Attributes: name -> attribute
    sys_modules,    \* sys.modules: the imported modules, in import order
    disk,           \* the model directories written by save_to_json
    out             \* what the last resolver / save / load call produced

vars == <<contexts, current_path, ctx, last, made, stack, steps,
          Loaded_Modules, Loaded_Attributes, sys_modules, disk, out>>

\* the state of the resolver and of the file system
store == <<Loaded_Modules, Loaded_Attributes, sys_modules, disk, out>>

(***************************************************************************)
(* Scope stack / context registry (ngcsimlib.utils)                        *)
(***************************************************************************)
get_current_path == current_path

\* the key under which a name is resolved: the active path, "/", the name
AbsKey(name) == current_path.s \o "/" \o name

get_context(name) ==
    IF AbsKey(name) \in DOMAIN contexts THEN contexts[AbsKey(name)] ELSE 0

add_context(name, con) ==
    [k \in DOMAIN contexts \cup {AbsKey(name)} |->
        IF k = AbsKey(name) THEN con ELSE contexts[k]]

get_current_context ==
    IF current_path.t = "str" /\ current_path.s \in DOMAIN contexts
    THEN contexts[current_path.s] ELSE 0

(***************************************************************************)
(* Context.__new__ / Context.__init__                                      *)
(***************************************************************************)
\* a mutation of ContextNew: always allocate
ContextNew_Fresh(name) == 0

\* the instance __new__ returns: the registered one, or 0 for a fresh one
ContextNew(name) == get_context(name)

\* a mutation of InitPath: the path ignores the active path
InitPath_NoParent(name) == PyStr("/" \o name)

\* self.path = get_current_path() + "/" + str(name)
InitPath(name) == PyStr(get_current_path.s \o "/" \o name)

\* the attributes __init__ gives a fresh instance
ContextInit(name) ==
    [name |-> name,
     path |-> InitPath(name),
     last_context |-> PyStr(""),
     components |-> EmptyMap,
     component_paths |-> EmptyMap,
     commands |-> EmptyMap,
     attrs |-> EmptyMap,
     json_ops |-> <<>>,
     json_components |-> <<>>,
     json_commands |-> <<>>]

\* the absent component / absent value
NoComp == [id |-> 0, name |-> "", path |-> "", klass |-> ""]

NoResult == [op |-> "none", self |-> 0, name |-> "", cur |-> PyStr(""),
             inst |-> 0, raised |-> FALSE, comp |-> NoComp,
             comps |-> <<>>, args |-> <<>>, kwargs |-> EmptyMap,
             names |-> <<>>, key |-> "", kind |-> "", val |-> PyNone]

\* Context(name): __new__ followed by __init__
Construct(name) ==
    IF current_path.t # "str"
    THEN \* the active path is not a string: "+" raises TypeError
         /\ last' = [NoResult EXCEPT !.op = "construct", !.name = name,
                                     !.cur = current_path, !.raised = TRUE]
         /\ UNCHANGED <<contexts, current_path, ctx, made, stack>>
    ELSE LET con == ContextNew(name)
             inst == IF con = 0 THEN Len(ctx) + 1 ELSE con
             key == <<current_path.s, name>>
         IN /\ con = 0 => Len(ctx) < MaxCtx
            /\ IF con = 0
               THEN /\ ctx' = Append(ctx, ContextInit(name))
                    /\ contexts' = add_context(name, inst)
               ELSE UNCHANGED <<ctx, contexts>>
            /\ last' = [NoResult EXCEPT !.op = "construct", !.name = name,
                                        !.cur = current_path, !.inst = inst]
            /\ made' = IF key \in DOMAIN made THEN made
                       ELSE [k \in DOMAIN made \cup {key} |->
                                IF k = key THEN inst ELSE made[k]]
            /\ UNCHANGED <<current_path, stack>>

(***************************************************************************)
(* Context.__enter__ / Context.__exit__                                    *)
(***************************************************************************)
set_new_context(path) == path

\* the path __enter__ makes current
EnterPath(self) == set_new_context(ctx[self].path)

\* the path __exit__ makes current
ExitPath(self) == set_new_context(ctx[self].last_context)

Enter(self) ==
    /\ ctx' = [ctx EXCEPT ![self].last_context = get_current_path]
    /\ current_path' = EnterPath(self)
    /\ last' = [NoResult EXCEPT !.op = "enter", !.self = self,
                                !.cur = current_path]
    /\ UNCHANGED <<contexts, made>>

Exit(self) ==
    /\ current_path' = ExitPath(self)
    /\ last' = [NoResult EXCEPT !.op = "exit", !.self = self,
                                !.cur = current_path]
    /\ UNCHANGED <<contexts, ctx, made>>

\* entering and leaving in any order (explicit __enter__ / __exit__ calls)
EnterAny == \E self \in 1..Len(ctx) : Enter(self) /\ UNCHANGED stack

ExitAny == \E self \in 1..Len(ctx) : Exit(self) /\ UNCHANGED stack

\* `with c:` opens a block ...
EnterBlock ==
    /\ Len(stack) < MaxDepth
    /\ \E self \in 1..Len(ctx) :
          /\ Enter(self)
          /\ stack' = Append(stack, [c |-> self, saved |-> current_path])

\* ... and the end of the innermost open block leaves it
ExitBlock ==
    /\ stack # <<>>
    /\ Exit(stack[Len(stack)].c)
    /\ stack' = SubSeq(stack, 1, Len(stack) - 1)

ConstructAny == \E name \in CtxNames : Construct(name)


(***************************************************************************)
(* Dict helpers                                                            *)
(***************************************************************************)
\* d[k] = v on a dict held as a function
Put(d, k, v) == [x \in DOMAIN d \cup {k} |-> IF x = k THEN v ELSE d[x]]

\* d[k] = v on an insertion-ordered dict held as a sequence of items
PutItem(items, k, v) ==
    IF \E i \in 1..Len(items) : items[i].key = k
    THEN [i \in 1..Len(items) |->
             IF items[i].key = k THEN [key |-> k, obj |-> v] ELSE items[i]]
    ELSE Append(items, [key |-> k, obj |-> v])

ItemKeys(items) == {items[i].key : i \in 1..Len(items)}

ItemAt(items, k) == items[CHOOSE i \in 1..Len(items) : items[i].key = k].obj

\* [c.name for c in components]
NamesOf(comps) == [i \in 1..Len(comps) |-> comps[i].name]

(***************************************************************************)
(* ngclib.utils.check_serializable and json.dumps                          *)
(***************************************************************************)
RECURSIVE IsSerializable(_)
\* json.dumps(v) succeeds: opaque objects are rejected, containers are
\* serializable when everything inside them is
IsSerializable(v) ==
    CASE v.t = "obj" -> FALSE
      [] v.t \in {"dict", "tuple", "list"} ->
             \A k \in DOMAIN v.d : IsSerializable(v.d[k])
      [] OTHER -> TRUE

\* a mutation of check_serializable: only top-level opaque objects are bad
check_serializable_Shallow(dict) == {k \in DOMAIN dict : dict[k].t = "obj"}

\* the keys whose values json.dumps rejects
check_serializable(dict) == {k \in DOMAIN dict : ~IsSerializable(dict[k])}

(***************************************************************************)
(* Context.get_components                                                  *)
(***************************************************************************)
RECURSIVE Resolved(_, _)
\* the loop of get_components: the components found, in request order
Resolved(c, names) ==
    IF names = <<>> THEN <<>>
    ELSE LET rest == Resolved(c, Tail(names))
         IN IF Head(names) \in DOMAIN c.components
            THEN <<c.components[Head(names)]>> \o rest
            ELSE rest

\* the outcome of get_components: what it returns, or that it raised
get_components(c, names) ==
    LET found == Resolved(c, names)
    IN IF Len(names) = 0
       THEN [raised |-> FALSE, kind |-> "none", comps |-> <<>>]
       ELSE IF Len(names) > 1
       THEN [raised |-> FALSE, kind |-> "list", comps |-> found]
       ELSE IF Len(found) = 0
       THEN \* _components[0] on an empty list: IndexError
            [raised |-> TRUE, kind |-> "none", comps |-> <<>>]
       ELSE [raised |-> FALSE, kind |-> "one", comps |-> found]

GetComponents(self, names) ==
    LET r == get_components(ctx[self], names)
    IN /\ last' = [NoResult EXCEPT !.op = "get_components", !.self = self,
                                   !.names = names, !.raised = r.raised,
                                   !.kind = r.kind, !.comps = r.comps]
       /\ UNCHANGED <<contexts, current_path, ctx, made, stack>>

GetComponentsAny ==
    \E self \in 1..Len(ctx) : \E names \in SeqsUpTo(CompNames, MaxNames) :
        GetComponents(self, names)

(***************************************************************************)
(* Context.add_component                                                   *)
(***************************************************************************)
\* a mutation of add_component: the later component replaces the earlier
add_component_Overwrite(c, component) ==
    [c EXCEPT !.components = Put(@, component.name, component)]

add_component(c, component) ==
    IF component.name \notin DOMAIN c.components
    THEN [c EXCEPT !.components = Put(@, component.name, component)]
    ELSE c

AddComponent(self, component) ==
    /\ ctx' = [ctx EXCEPT ![self] = add_component(@, component)]
    /\ last' = [NoResult EXCEPT !.op = "add_component", !.self = self,
                                !.comp = component]
    /\ UNCHANGED <<contexts, current_path, made, stack>>

AddComponentAny ==
    \E self \in 1..Len(ctx) : \E component \in Components :
        AddComponent(self, component)

(***************************************************************************)
(* Context.__setattr__ and Context.add_command                             *)
(***************************************************************************)
\* self.__setattr__(name, value): path and _last_context are attributes like
\* any other; every other name lands in the instance dict
SetAttr(c, name, value) ==
    CASE name = "path" -> [c EXCEPT !.path = value]
      [] name = "_last_context" -> [c EXCEPT !.last_context = value]
      [] OTHER -> [c EXCEPT !.attrs = Put(@, name, value)]

\* getattr(self, name), PyNone when there is no such attribute
GetAttr(c, name) ==
    CASE name = "path" -> c.path
      [] name = "_last_context" -> c.last_context
      [] name \in DOMAIN c.attrs -> c.attrs[name]
      [] OTHER -> PyNone

\* name is PyNone or PyStr(n)
add_command(c, command, name) ==
    LET n == IF name = PyNone THEN command.name ELSE name.s
    IN SetAttr([c EXCEPT !.commands = Put(@, n, command.obj)], n, command.obj)

AddCommand(self, command, name) ==
    /\ ctx' = [ctx EXCEPT ![self] = add_command(@, command, name)]
    /\ last' = [NoResult EXCEPT !.op = "add_command", !.self = self,
                                !.val = command.obj,
                                !.name = IF name = PyNone THEN command.name
                                         ELSE name.s]
    /\ UNCHANGED <<contexts, current_path, made, stack>>

AddCommandAny ==
    \E self \in 1..Len(ctx) : \E command \in Commands :
        \E name \in {PyNone} \cup {PyStr(n) : n \in CmdNames} :
            AddCommand(self, command, name)


(***************************************************************************)
(* Context.register_component / register_command / register_op             *)
(***************************************************************************)
\* the loop over args: an argument is kept when json.dumps([a]) succeeds
KeptArgs(args) == SelectSeq(args, IsSerializable)

\* the copy of kwargs without the keys check_serializable reports
KeptKwargs(kwargs) ==
    [k \in DOMAIN kwargs \ check_serializable(kwargs) |-> kwargs[k]]

\* a mutation of register_component: no early return for a known path
register_component_NoGuard(c, component, args, kwargs) ==
    [c EXCEPT !.component_paths = Put(@, component.path, component),
              !.json_components =
                  PutItem(@, component.path,
                          [class |-> component.klass,
                           args |-> KeptArgs(args),
                           kwargs |-> KeptKwargs(kwargs)])]

register_component(c, component, args, kwargs) ==
    IF component.path \in DOMAIN c.component_paths
    THEN c
    ELSE [c EXCEPT !.component_paths = Put(@, component.path, component),
                   !.json_components =
                       PutItem(@, component.path,
                               [class |-> component.klass,
                                args |-> KeptArgs(args),
                                kwargs |-> KeptKwargs(kwargs)])]

RegisterComponent(self, component, args, kwargs) ==
    /\ ctx' = [ctx EXCEPT ![self] = register_component(@, component, args,
                                                       kwargs)]
    /\ last' = [NoResult EXCEPT !.op = "register_component", !.self = self,
                                !.comp = component, !.args = args,
                                !.kwargs = kwargs]
    /\ UNCHANGED <<contexts, current_path, made, stack>>

\* register_component with its inputs drawn from the given sets
RegisterComponentOver(Cs, As, Ks) ==
    \E self \in 1..Len(ctx) : \E component \in Cs : \E args \in As :
        \E kwargs \in Ks : RegisterComponent(self, component, args, kwargs)

\* a call with one argument json.dumps rejects and one it accepts
MixedArgs == <<PyObj(7), PyInt(1)>>

MixedKwargs == [k \in KwKeys |-> IF k = "alpha" THEN PyInt(1) ELSE PyObj(7)]

\* calls that vary the positional arguments
RegisterComponentArgs ==
    RegisterComponentOver({Comp1, Comp2}, SeqsUpTo(ArgVals, MaxArgs),
                          {EmptyMap, MixedKwargs})

\* calls that vary the keyword arguments
RegisterComponentKwargs ==
    RegisterComponentOver({Comp1, Comp2}, {<<>>, MixedArgs},
                          DictsOver(KwKeys, KwVals))

\* a component of another path, built without arguments
RegisterComponentPlain ==
    RegisterComponentOver({Comp3}, {<<>>}, {EmptyMap})

\* calls of the full specification
RegisterComponentFew ==
    RegisterComponentOver({Comp1, Comp2}, {<<>>, MixedArgs},
                          {EmptyMap, MixedKwargs})

\* a command descriptor of the build-spec; keys lists the entries present
StaticDescriptor(klass, components, args, kwargs) ==
    [keys |-> {"class", "components", "args", "kwargs"},
     class |-> klass, components |-> NamesOf(components),
     args |-> args, kwargs |-> kwargs, compile_key |-> ""]

register_command(c, klass, args, components, command_name, kwargs) ==
    [c EXCEPT !.json_commands =
        PutItem(@, command_name,
                StaticDescriptor(klass, components, args, kwargs))]

RegisterCommand(self, klass, components, command_name) ==
    /\ ctx' = [ctx EXCEPT ![self] =
                  register_command(@, klass, <<>>, components, command_name,
                                   EmptyMap)]
    /\ last' = [NoResult EXCEPT !.op = "register_command", !.self = self,
                                !.comps = components, !.name = command_name,
                                !.key = klass]
    /\ UNCHANGED <<contexts, current_path, made, stack>>

RegisterCommandAny ==
    \E self \in 1..Len(ctx) : \E components \in SeqsUpTo({Comp1, Comp3}, 1) :
        \E command_name \in CmdNames :
            RegisterCommand(self, "Multiclamp", components, command_name)

register_op(c, op) == [c EXCEPT !.json_ops = Append(@, op)]

RegisterOp(self, op) ==
    /\ Len(ctx[self].json_ops) < MaxOps
    /\ ctx' = [ctx EXCEPT ![self] = register_op(@, op)]
    /\ last' = [NoResult EXCEPT !.op = "register_op", !.self = self]
    /\ UNCHANGED <<contexts, current_path, made, stack>>

RegisterOpAny == \E self \in 1..Len(ctx) : \E op \in Ops : RegisterOp(self, op)

(***************************************************************************)
(* Context.compile_command_key                                             *)
(***************************************************************************)
\* the compiler collaborator: an opaque command determined by its inputs
dynamic_compile(components, compile_key) ==
    [t |-> "cmd", n |-> Len(components), s |-> compile_key,
     d |-> [nm \in {components[i].name : i \in 1..Len(components)} |->
               PyInt(CHOOSE i \in 1..Len(components) :
                         components[i].name = nm)]]

DynamicDescriptor(components, compile_key) ==
    [keys |-> {"class", "components", "compile_key"},
     class |-> "dynamic_compiled", components |-> NamesOf(components),
     args |-> <<>>, kwargs |-> EmptyMap, compile_key |-> compile_key]

\* name is PyNone or PyStr(n)
compile_command_key(c, components, compile_key, name) ==
    LET cmd == dynamic_compile(components, compile_key)
        n == IF name = PyNone THEN compile_key ELSE name.s
    IN SetAttr([c EXCEPT !.json_commands =
                   PutItem(@, n, DynamicDescriptor(components, compile_key))],
               n, cmd)

CompileCommandKey(self, components, compile_key, name) ==
    /\ ctx' = [ctx EXCEPT ![self] =
                  compile_command_key(@, components, compile_key, name)]
    /\ last' = [NoResult EXCEPT !.op = "compile_command_key", !.self = self,
                                !.comps = components, !.key = compile_key,
                                !.val = dynamic_compile(components,
                                                        compile_key),
                                !.name = IF name = PyNone THEN compile_key
                                         ELSE name.s]
    /\ UNCHANGED <<contexts, current_path, made, stack>>

CompileCommandKeyAny ==
    \E self \in 1..Len(ctx) : \E components \in SeqsUpTo(Components, MaxNames) :
        \E compile_key \in CompileKeys :
            \E name \in {PyNone} \cup {PyStr(n) : n \in CmdNames} :
                CompileCommandKey(self, components, compile_key, name)


(***************************************************************************)
(* Dynamic resolver (ngclib.utils)                                         *)
(*                                                                         *)
(* A dotted string is held as the sequence of its segments, which is what  *)
(* split('.') yields; <<>> stands for None.                                *)
(***************************************************************************)
\* str.lower() on the segments that occur
Lower(w) ==
    CASE w = "Foo" -> "foo"
      [] w = "Bar" -> "bar"
      [] w = "Add" -> "add"
      [] w = "Mul" -> "mul"
      [] w = "Zed" -> "zed"
      [] w = "Multiclamp" -> "multiclamp"
      [] w = "Nope" -> "nope"
      [] OTHER -> w

\* w[0].upper() + w[1:] on the segments that occur
Capitalize(w) ==
    CASE w = "foo" -> "Foo"
      [] w = "bar" -> "Bar"
      [] w = "add" -> "Add"
      [] w = "mul" -> "Mul"
      [] w = "zed" -> "Zed"
      [] w = "multiclamp" -> "Multiclamp"
      [] w = "nope" -> "Nope"
      [] OTHER -> w

\* the modules imported when the program starts, in sys.modules order
StartModules == << <<"pkg", "foo">>, <<"alt", "Foo">>, <<"pkg", "bar">>,
                   <<"ops", "add">>, <<"ops", "mul">>,
                   <<"cmd", "multiclamp">> >>

\* the modules import_module can find
Importable == {StartModules[i] : i \in 1..Len(StartModules)}
                 \cup {<<"ext", "zed">>}

\* the attributes a module defines (pkg.bar has no class Bar)
ModuleAttrs(mod) ==
    CASE mod = <<"pkg", "foo">> -> {"Foo"}
      [] mod = <<"alt", "Foo">> -> {"Foo"}
      [] mod = <<"ops", "add">> -> {"Add"}
      [] mod = <<"ops", "mul">> -> {"Mul"}
      [] mod = <<"cmd", "multiclamp">> -> {"Multiclamp"}
      [] mod = <<"ext", "zed">> -> {"Zed"}
      [] OTHER -> {}

NoModule == <<>>

NoAttribute == [mod |-> <<>>, attr |-> ""]

\* the resolver state an operation starts from
ResolverState ==
    [mods |-> Loaded_Modules, attrs |-> Loaded_Attributes, sys |-> sys_modules]

\* the last segment, as compared by the scan of sys.modules
LastSegment(path, match_case) ==
    IF match_case THEN path[Len(path)] ELSE Lower(path[Len(path)])

\* the positions of sys.modules whose last segment matches the request
Matches(st, module_path, match_case) ==
    {i \in 1..Len(st.sys) :
        LastSegment(st.sys[i], match_case)
            = LastSegment(module_path, match_case)}

\* load_module: the outcome and the resolver state it leaves
load_module(st, module_path, match_case, absolute_path) ==
    IF module_path \in DOMAIN st.mods
    THEN [raised |-> FALSE, err |-> <<>>, mod |-> st.mods[module_path],
          st |-> st]
    ELSE LET m == Matches(st, module_path, match_case)
             module_name ==
                 IF absolute_path THEN module_path
                 ELSE IF m = {} THEN NoModule
                 ELSE st.sys[CHOOSE i \in m : \A j \in m : i <= j]
         IN IF module_name = NoModule \/ module_name \notin Importable
            THEN \* RuntimeError, or import_module's ModuleNotFoundError
                 [raised |-> TRUE, err |-> module_path, mod |-> NoModule,
                  st |-> st]
            ELSE [raised |-> FALSE, err |-> <<>>, mod |-> module_name,
                  st |-> [st EXCEPT
                     !.mods = [k \in DOMAIN st.mods \cup {module_path} |->
                                  IF k = module_path THEN module_name
                                  ELSE st.mods[k]],
                     !.sys = IF \E i \in 1..Len(st.sys) :
                                    st.sys[i] = module_name
                             THEN st.sys ELSE Append(st.sys, module_name)]]

\* attribute_name[0].upper() + attribute_name[1:], unless match_case
Normalized(attribute_name, match_case) ==
    IF match_case THEN attribute_name
    ELSE [attribute_name EXCEPT ![1] = Capitalize(@)]

\* getattr(mod, name) succeeds
HasAttr(mod, name) == Len(name) = 1 /\ name[1] \in ModuleAttrs(mod)

\* a mutation of load_attribute: a missing attribute yields None, no error
load_attribute_Quiet(st, attribute_name, module_path, match_case, absolute_path) ==
    IF attribute_name \in DOMAIN st.attrs
    THEN [raised |-> FALSE, err |-> <<>>, attr |-> st.attrs[attribute_name],
          st |-> st]
    ELSE LET name == Normalized(attribute_name, match_case)
             Got(m) ==
                 IF m.raised
                 THEN [raised |-> TRUE, err |-> m.err, attr |-> NoAttribute,
                       st |-> st]
                 ELSE IF ~HasAttr(m.mod, name)
                 THEN \* the module found stays in the module cache
                      [raised |-> FALSE, err |-> <<>>, attr |-> NoAttribute,
                       st |-> m.st]
                 ELSE [raised |-> FALSE, err |-> <<>>,
                       attr |-> [mod |-> m.mod, attr |-> name[1]],
                       st |-> [m.st EXCEPT
                          !.attrs = [k \in DOMAIN m.st.attrs \cup {name} |->
                                        IF k = name
                                        THEN [mod |-> m.mod, attr |-> name[1]]
                                        ELSE m.st.attrs[k]]]]
         IN Bind(load_module(st, IF module_path = <<>> THEN attribute_name
                                 ELSE module_path, match_case, absolute_path),
                 Got)

\* load_attribute: the outcome and the resolver state it leaves
load_attribute(st, attribute_name, module_path, match_case, absolute_path) ==
    IF attribute_name \in DOMAIN st.attrs
    THEN [raised |-> FALSE, err |-> <<>>, attr |-> st.attrs[attribute_name],
          st |-> st]
    ELSE LET name == Normalized(attribute_name, match_case)
             Got(m) ==
                 IF m.raised
                 THEN [raised |-> TRUE, err |-> m.err, attr |-> NoAttribute,
                       st |-> st]
                 ELSE IF ~HasAttr(m.mod, name)
                 THEN \* the module found stays in the module cache
                      [raised |-> TRUE, err |-> name, attr |-> NoAttribute,
                       st |-> m.st]
                 ELSE [raised |-> FALSE, err |-> <<>>,
                       attr |-> [mod |-> m.mod, attr |-> name[1]],
                       st |-> [m.st EXCEPT
                          !.attrs = [k \in DOMAIN m.st.attrs \cup {name} |->
                                        IF k = name
                                        THEN [mod |-> m.mod, attr |-> name[1]]
                                        ELSE m.st.attrs[k]]]]
         IN Bind(load_module(st, IF module_path = <<>> THEN attribute_name
                                 ELSE module_path, match_case, absolute_path),
                 Got)

\* load_from_path: the module and attribute names it derives from the path
load_from_path(st, path, match_case, absolute_path) ==
    LET module_name == IF ~absolute_path THEN path
                       ELSE IF Len(path) = 1 THEN <<"">>
                       ELSE SubSeq(path, 1, Len(path) - 1)
        class_name == IF absolute_path THEN <<path[Len(path)]>> ELSE path
    IN load_attribute(st, class_name, module_name,
                      absolute_path \/ match_case, absolute_path)

\* the paths and names asked of the resolver
ModPaths == {<<"foo">>, <<"Foo">>, <<"bar">>, <<"nope">>, <<"ext", "zed">>}

AttrNames == {<<"foo">>, <<"Foo">>, <<"bar">>}

\* <<>> stands for a module_path left at None
AttrModules == {<<>>, <<"foo">>, <<"bar">>}

ClassPaths == {<<"foo">>, <<"bar">>, <<"nope">>, <<"pkg", "foo", "Foo">>,
               <<"ext", "zed", "Zed">>}

\* what an op descriptor or one of its sources evaluates to: None, a
\* compartment, or an op object built by a class from its sources
NoValue == [t |-> "none", at |-> 0, ref |-> "", class |-> NoAttribute,
            sources |-> <<>>]

NoOut == [op |-> "none", raised |-> FALSE, err |-> <<>>, name |-> <<>>,
          path |-> <<>>, self |-> 0, model |-> 0,
          events |-> <<>>, tree |-> 0, active |-> 0, ret |-> NoValue,
          bound |-> <<>>,
          match_case |-> FALSE, absolute_path |-> FALSE,
          mod |-> NoModule, attr |-> NoAttribute]

\* the resolver state after an operation
SetResolver(st) ==
    /\ Loaded_Modules' = st.mods
    /\ Loaded_Attributes' = st.attrs
    /\ sys_modules' = st.sys

LoadModule(module_path, match_case, absolute_path) ==
    \E r \in {load_module(ResolverState, module_path, match_case,
                         absolute_path)} :
        /\ SetResolver(r.st)
        /\ out' = [NoOut EXCEPT !.op = "load_module", !.raised = r.raised,
                                !.err = r.err,
                                !.path = module_path,
                                !.match_case = match_case,
                                !.absolute_path = absolute_path,
                                !.mod = r.mod]
        /\ UNCHANGED <<contexts, current_path, ctx, last, made, stack, disk>>

LoadModuleAny ==
    \E module_path \in ModPaths : \E match_case, absolute_path \in BOOLEAN :
        LoadModule(module_path, match_case, absolute_path)

\* module_path is <<>> when the argument is left at None
LoadAttribute(attribute_name, module_path, match_case, absolute_path) ==
    \E r \in {load_attribute(ResolverState, attribute_name, module_path,
                            match_case, absolute_path)} :
        /\ SetResolver(r.st)
        /\ out' = [NoOut EXCEPT !.op = "load_attribute", !.raised = r.raised,
                                !.err = r.err,
                                !.name = attribute_name,
                                !.path = module_path,
                                !.match_case = match_case,
                                !.absolute_path = absolute_path,
                                !.attr = r.attr]
        /\ UNCHANGED <<contexts, current_path, ctx, last, made, stack, disk>>

LoadAttributeAny ==
    \E attribute_name \in AttrNames : \E module_path \in AttrModules :
        \E match_case, absolute_path \in BOOLEAN :
            LoadAttribute(attribute_name, module_path, match_case,
                          absolute_path)

LoadFromPath(path, match_case, absolute_path) ==
    \E r \in {load_from_path(ResolverState, path, match_case, absolute_path)} :
        /\ SetResolver(r.st)
        /\ out' = [NoOut EXCEPT !.op = "load_from_path", !.raised = r.raised,
                                !.err = r.err,
                                !.path = path,
                                !.match_case = match_case,
                                !.absolute_path = absolute_path,
                                !.attr = r.attr]
        /\ UNCHANGED <<contexts, current_path, ctx, last, made, stack, disk>>

LoadFromPathAny ==
    \E path \in ClassPaths :
        \E match_case, absolute_path \in BOOLEAN :
            LoadFromPath(path, match_case, absolute_path)

\* requests for modules and classes that are missing, next to one found
LoadModuleFew ==
    \E module_path \in {<<"nope">>, <<"bar">>} : \E match_case \in BOOLEAN :
        LoadModule(module_path, match_case, FALSE)

LoadAttributeFew ==
    \E attribute_name \in {<<"Foo">>, <<"bar">>} :
        \E module_path \in {<<>>, <<"nope">>} :
            LoadAttribute(attribute_name, module_path, FALSE, FALSE)

LoadFromPathFew ==
    \E path \in {<<"bar">>, <<"nope">>, <<"ext", "zed", "Zed">>} :
        \E absolute_path \in BOOLEAN :
            LoadFromPath(path, FALSE, absolute_path)

(***************************************************************************)
(* Context.save_to_json                                                    *)
(***************************************************************************)
\* the models a directory can hold
MaxSaves == 2

\* the order in which the keys of a kwargs or parameter_map dict are visited
KeyOrder == <<"alpha", "beta">>

RECURSIVE Json(_)
\* the value json.load reads back after json.dump wrote v: a tuple comes
\* back as a list
Json(v) ==
    CASE v.t = "tuple" -> [v EXCEPT !.t = "list",
                                    !.d = [k \in DOMAIN v.d |-> Json(v.d[k])]]
      [] v.t \in {"dict", "list"} ->
             [v EXCEPT !.d = [k \in DOMAIN v.d |-> Json(v.d[k])]]
      [] OTHER -> v

\* a component descriptor as components.json holds it
JsonComponent(obj) ==
    [class |-> obj.class,
     args |-> [i \in 1..Len(obj.args) |-> Json(obj.args[i])],
     kwargs |-> [k \in DOMAIN obj.kwargs |-> Json(obj.kwargs[k])]]

\* component['kwargs'].get('parameter_map', None) is not None
HasParameterMap(kwargs) ==
    /\ "parameter_map" \in DOMAIN kwargs
    /\ kwargs["parameter_map"] # PyNone

\* the (c_path, cKey, pVal) triples one component adds, with their pKey;
\* missing marks a cKey that component['kwargs'][cKey] does not find
MapEntries(item) ==
    IF ~HasParameterMap(item.obj.kwargs) THEN <<>>
    ELSE LET kwargs == item.obj.kwargs
             pm == kwargs["parameter_map"].d
             keys == SelectSeq(KeyOrder, LAMBDA k : k \in DOMAIN pm)
         IN [i \in 1..Len(keys) |->
                [c_path |-> item.key, cKey |-> keys[i], pKey |-> pm[keys[i]].s,
                 missing |-> keys[i] \notin DOMAIN kwargs,
                 pVal |-> IF keys[i] \in DOMAIN kwargs THEN kwargs[keys[i]]
                          ELSE PyNone]]

RECURSIVE AllEntries(_)
\* the first loop of save_to_json over the build-spec's components
AllEntries(items) ==
    IF items = <<>> THEN <<>>
    ELSE MapEntries(Head(items)) \o AllEntries(Tail(items))

RECURSIVE ParamOrder(_, _)
\* the hyperparameter names in the order the first loop meets them
ParamOrder(entries, seen) ==
    IF entries = <<>> THEN <<>>
    ELSE IF Head(entries).pKey \in seen THEN ParamOrder(Tail(entries), seen)
    ELSE <<Head(entries).pKey>>
             \o ParamOrder(Tail(entries), seen \cup {Head(entries).pKey})

\* hyperparameters[param]: the values grouped under one name, in order
Grouped(entries, param) ==
    LET mine == SelectSeq(entries, LAMBDA e : e.pKey = param)
    IN [i \in 1..Len(mine) |-> mine[i].pVal]

RECURSIVE MatchValues(_, _)
\* the matching loop: hp[param] starts as None, takes the first value that
\* finds it None, and the loop breaks on the first value that differs
MatchValues(vals, acc) ==
    IF vals = <<>> THEN [matched |-> TRUE, val |-> acc]
    ELSE IF acc = PyNone THEN MatchValues(Tail(vals), Head(vals))
    ELSE IF acc # Head(vals) THEN [matched |-> FALSE, val |-> PyNone]
    ELSE MatchValues(Tail(vals), acc)

\* a mutation of the second loop: the literal values are kept
SavedKwargs_Literal(item, entries) ==
    [k \in DOMAIN item.obj.kwargs \ {"parameter_map"} |-> item.obj.kwargs[k]]

\* the kwargs of one component after the second and third loops
SavedKwargs(item, entries) ==
    LET kwargs == item.obj.kwargs
        Param(k) == (CHOOSE i \in 1..Len(entries) :
                        /\ entries[i].c_path = item.key
                        /\ entries[i].cKey = k)
    IN [k \in DOMAIN kwargs \ {"parameter_map"} |->
           IF /\ \E i \in 1..Len(entries) :
                    entries[i].c_path = item.key /\ entries[i].cKey = k
              /\ MatchValues(Grouped(entries, entries[Param(k)].pKey),
                             PyNone).matched
           THEN PyStr(entries[Param(k)].pKey)
           ELSE kwargs[k]]

\* a model directory: the three documents; complete is FALSE when the save
\* raised before components.json was dumped
NoModel == [ops |-> <<>>, commands |-> <<>>, complete |-> FALSE,
            components |-> <<>>, keys |-> {}, hyperparameters |-> EmptyMap,
            order |-> <<>>, registered |-> <<>>]

\* save_to_json: whether it raised, the context it leaves, the files written
save_to_json(c) ==
    LET items == c.json_components
        entries == AllEntries(items)
        params == {entries[i].pKey : i \in 1..Len(entries)}
        hp == [param \in {q \in params :
                             MatchValues(Grouped(entries, q), PyNone).matched}
                  |-> Json(MatchValues(Grouped(entries, param), PyNone).val)]
        saved == [i \in 1..Len(items) |->
                     [key |-> items[i].key,
                      obj |-> [items[i].obj EXCEPT
                                  !.kwargs = SavedKwargs(items[i], entries)]]]
        \* registered keeps the build-spec the save started from
        written == [NoModel EXCEPT !.ops = c.json_ops,
                                   !.commands = c.json_commands,
                                   !.registered = items]
    IN IF \E i \in 1..Len(entries) : entries[i].missing
       THEN \* KeyError in the first loop: nothing is dumped to components.json
            [raised |-> TRUE, c |-> c, model |-> written]
       ELSE [raised |-> FALSE,
             c |-> [c EXCEPT !.json_components = saved],
             model |-> [written EXCEPT
                 !.complete = TRUE,
                 !.components =
                     [i \in 1..Len(saved) |->
                         [key |-> saved[i].key,
                          obj |-> JsonComponent(saved[i].obj)]],
                 !.keys = {"components"} \cup
                          (IF DOMAIN hp # {} THEN {"hyperparameters"}
                           ELSE {}),
                 !.hyperparameters = hp,
                 !.order = SelectSeq(ParamOrder(entries, {}),
                                     LAMBDA q : q \in DOMAIN hp)]]

\* each save makes a directory of its own (make_unique_path)
SaveToJson(self) ==
    \E r \in {save_to_json(ctx[self])} :
        /\ Len(disk) < MaxSaves
        /\ ctx' = [ctx EXCEPT ![self] = r.c]
        /\ disk' = Append(disk, r.model)
        /\ out' = [NoOut EXCEPT !.op = "save_to_json", !.raised = r.raised,
                                !.self = self,
                                !.model = Len(disk) + 1]
        /\ UNCHANGED <<contexts, current_path, last, made, stack,
                       Loaded_Modules, Loaded_Attributes, sys_modules>>

SaveToJsonAny == \E self \in 1..Len(ctx) : SaveToJson(self)

(***************************************************************************)
(* Context.load_from_dir                                                   *)
(***************************************************************************)
NoEvent == [kind |-> "none", key |-> "", class |-> NoAttribute, args |-> <<>>,
            kwargs |-> EmptyMap, parameter_map |-> EmptyMap, comps |-> <<>>,
            sources |-> <<>>, destination |-> PyNone, ret |-> NoValue]

\* the last segment of a component path
NameOfPath(c_path) ==
    CASE c_path = "/a/c1" -> "c1"
      [] c_path = "/a/c2" -> "c2"
      [] OTHER -> c_path

\* the component a constructor call yields
Built(c_path, class) ==
    [id |-> 9, name |-> NameOfPath(c_path), path |-> c_path, klass |-> class]

\* the constructor of a component records the new object in the context it
\* is built in, with the arguments it was called with
Constructed(c, c_path, class, args, kwargs) ==
    add_component(register_component(c, Built(c_path, class), args, kwargs),
                  Built(c_path, class))

RECURSIVE SubstituteOne(_, _, _, _)
\* the loops over the hyperparameters and the kwargs of one component:
\* a kwarg whose value equals a hyperparameter name takes the shared value
SubstituteOne(kwargs, parameterMap, order, hyperparameters) ==
    IF order = <<>> THEN [kwargs |-> kwargs, parameterMap |-> parameterMap]
    ELSE LET pKey == Head(order)
             hit == {cKey \in DOMAIN kwargs : kwargs[cKey] = PyStr(pKey)}
         IN SubstituteOne(
                [cKey \in DOMAIN kwargs |->
                    IF cKey \in hit THEN hyperparameters[pKey]
                    ELSE kwargs[cKey]],
                [cKey \in DOMAIN parameterMap \cup hit |->
                    IF cKey \in hit THEN PyStr(pKey) ELSE parameterMap[cKey]],
                Tail(order), hyperparameters)

RECURSIVE Substitute(_, _, _, _)
\* the substitution pass over all components: one parameterMap for all
Substitute(items, parameterMap, order, hyperparameters) ==
    IF items = <<>> THEN [items |-> <<>>, parameterMap |-> parameterMap]
    ELSE LET one == SubstituteOne(Head(items).obj.kwargs, parameterMap, order,
                                  hyperparameters)
             rest == Substitute(Tail(items), one.parameterMap, order,
                                hyperparameters)
         IN [items |-> <<[Head(items) EXCEPT !.obj.kwargs = one.kwargs]>>
                          \o rest.items,
             parameterMap |-> rest.parameterMap]

\* the progress of a load: the context, the resolver, what was built so far
Progress(c, st) ==
    [c |-> c, st |-> st, events |-> <<>>, raised |-> FALSE, err |-> <<>>,
     ret |-> NoValue, vals |-> <<>>, bound |-> <<>>]

Failed(acc, st, err) == [acc EXCEPT !.raised = TRUE, !.err = err, !.st = st]

\* the construction of one component by make_components
BuildComponent(item, parameterMap, acc) ==
    LET c_path == item.key
        component == item.obj
        Build(klass) ==
            IF klass.raised THEN Failed(acc, klass.st, klass.err)
            ELSE [acc EXCEPT
                !.st = klass.st,
                !.c = Constructed(@, c_path, component.class, component.args,
                                  Put(component.kwargs, "parameter_map",
                                      PyDict(parameterMap))),
                !.events = Append(@,
                    [NoEvent EXCEPT !.kind = "component", !.key = c_path,
                                    !.class = klass.attr,
                                    !.args = component.args,
                                    !.kwargs = component.kwargs,
                                    !.parameter_map = parameterMap])]
    IN IF acc.raised THEN acc
       ELSE Bind(load_from_path(acc.st, <<component.class>>, FALSE, FALSE),
                 Build)

RECURSIVE BuildComponents(_, _, _)
\* the construction loop of make_components
BuildComponents(items, parameterMap, acc) ==
    IF items = <<>> THEN acc
    ELSE Bind(BuildComponent(Head(items), parameterMap, acc),
              LAMBDA a : BuildComponents(Tail(items), parameterMap, a))

\* make_components on the components.json of a model directory
make_components(model, acc) ==
    IF ~model.complete
    THEN \* json.load fails on the file the aborted save left
         Failed(acc, acc.st, <<"components.json">>)
    ELSE IF "hyperparameters" \in model.keys
    THEN Bind(Substitute(model.components, EmptyMap, model.order,
                         model.hyperparameters),
              LAMBDA sub : BuildComponents(sub.items, sub.parameterMap, acc))
    ELSE BuildComponents(model.components, EmptyMap, acc)

\* get_compartment_by_name(context, name): the compartment the reference
\* names in that context (context is an instance, 0 for None)
get_compartment_by_name(context, name) ==
    [NoValue EXCEPT !.t = "compartment", !.at = context, !.ref = name]

\* klass(*_sources): the op object
OpObject(klass, _sources) ==
    [NoValue EXCEPT !.t = "op", !.class = klass, !.sources = _sources]

\* dest << obj: the op object is bound into the destination compartment
Assigned(bound, dest, obj) == Append(bound, [dest |-> dest, obj |-> obj])

RECURSIVE make_op(_, _)
RECURSIVE RealizeSources(_, _, _)
\* the loop of _make_op over the sources, _sources collected in vals
RealizeSources(sources, acc, vals) ==
    IF acc.raised \/ sources = <<>> THEN [acc EXCEPT !.vals = vals]
    ELSE IF Head(sources).op # <<>>
    THEN Bind(make_op(Head(sources).op[1], acc),
              LAMBDA a : RealizeSources(Tail(sources), a,
                                        Append(vals, a.ret)))
    ELSE RealizeSources(Tail(sources), acc,
                        Append(vals,
                               get_compartment_by_name(get_current_context,
                                                       Head(sources).ref)))

\* a mutation of _make_op: the constructed object is returned in either case
make_op_Returning(op_spec, acc) ==
    LET Finish(klass, a) ==
            IF a.raised THEN a
            ELSE [a EXCEPT
                !.ret = OpObject(klass.attr, a.vals),
                !.bound = IF op_spec.destination = PyNone THEN @
                          ELSE Assigned(@,
                                   get_compartment_by_name(
                                       get_current_context,
                                       op_spec.destination.s),
                                   OpObject(klass.attr, a.vals)),
                !.events = Append(@,
                    [NoEvent EXCEPT !.kind = "op", !.key = op_spec.class,
                                    !.class = klass.attr,
                                    !.sources = a.vals,
                                    !.destination = op_spec.destination,
                                    !.ret = OpObject(klass.attr, a.vals)])]
        Realize(klass) ==
            IF klass.raised THEN Failed(acc, klass.st, klass.err)
            ELSE Bind(RealizeSources(op_spec.sources,
                                     [acc EXCEPT !.st = klass.st], <<>>),
                      LAMBDA a : Finish(klass, a))
    IN IF acc.raised THEN acc
       ELSE Bind(load_from_path(acc.st, <<op_spec.class>>, FALSE, FALSE),
                 Realize)

\* _make_op: the class is resolved, the sources are realized in listed
\* order, the op object is built; it is returned when there is no
\* destination, else bound into the destination and None is returned
make_op(op_spec, acc) ==
    LET Finish(klass, a) ==
            IF a.raised THEN a
            ELSE [a EXCEPT
                !.ret = IF op_spec.destination = PyNone
                        THEN OpObject(klass.attr, a.vals)
                        ELSE NoValue,
                !.bound = IF op_spec.destination = PyNone THEN @
                          ELSE Assigned(@,
                                   get_compartment_by_name(
                                       get_current_context,
                                       op_spec.destination.s),
                                   OpObject(klass.attr, a.vals)),
                !.events = Append(@,
                    [NoEvent EXCEPT !.kind = "op", !.key = op_spec.class,
                                    !.class = klass.attr,
                                    !.sources = a.vals,
                                    !.destination = op_spec.destination,
                                    !.ret = IF op_spec.destination = PyNone
                                            THEN OpObject(klass.attr, a.vals)
                                            ELSE NoValue])]
        Realize(klass) ==
            IF klass.raised THEN Failed(acc, klass.st, klass.err)
            ELSE Bind(RealizeSources(op_spec.sources,
                                     [acc EXCEPT !.st = klass.st], <<>>),
                      LAMBDA a : Finish(klass, a))
    IN IF acc.raised THEN acc
       ELSE Bind(load_from_path(acc.st, <<op_spec.class>>, FALSE, FALSE),
                 Realize)

RECURSIVE make_ops(_, _)
make_ops(ops, acc) ==
    IF ops = <<>> THEN acc
    ELSE Bind(make_op(Head(ops), acc), LAMBDA a : make_ops(Tail(ops), a))

\* one entry of commands.json
make_command(c_name, command, acc) ==
    LET Compile(found) ==
            IF found.raised \/ found.kind # "list"
            THEN \* IndexError, or * applied to None or to one component
                 Failed(acc, acc.st, <<c_name>>)
            ELSE [acc EXCEPT
                     !.c = compile_command_key(@, found.comps,
                                               command.compile_key,
                                               PyStr(c_name)),
                     !.events = Append(@,
                         [NoEvent EXCEPT !.kind = "command", !.key = c_name,
                                         !.comps = NamesOf(found.comps)])]
        Build(klass, found) ==
            IF klass.raised THEN Failed(acc, klass.st, klass.err)
            ELSE IF found.raised THEN Failed(acc, klass.st, <<c_name>>)
            ELSE [acc EXCEPT
                     !.st = klass.st,
                     !.events = Append(@,
                         [NoEvent EXCEPT !.kind = "command", !.key = c_name,
                                         !.class = klass.attr,
                                         !.args = command.args,
                                         !.kwargs = command.kwargs,
                                         !.comps = NamesOf(found.comps)])]
        ForClass(found) ==
            IF command.class = "dynamic_compiled" THEN Compile(found)
            ELSE Bind(load_from_path(acc.st, <<command.class>>, FALSE, FALSE),
                      LAMBDA klass : Build(klass, found))
    IN IF acc.raised THEN acc
       ELSE Bind(get_components(acc.c, command.components), ForClass)

RECURSIVE make_commands(_, _)
make_commands(commands, acc) ==
    IF commands = <<>> THEN acc
    ELSE Bind(make_command(Head(commands).key, Head(commands).obj, acc),
              LAMBDA a : make_commands(Tail(commands), a))

\* a mutation of load_from_dir: the ops are realized before the components
load_from_dir_OpsFirst(c, st, model) ==
    Bind(make_ops(model.ops, Progress(c, st)),
         LAMBDA a : Bind(make_components(model, a),
                         LAMBDA b : make_commands(model.commands, b)))

\* load_from_dir: the three phases, each skipped once an error was raised
load_from_dir(c, st, model) ==
    Bind(make_components(model, Progress(c, st)),
         LAMBDA a : Bind(make_ops(model.ops, a),
                         LAMBDA b : make_commands(model.commands, b)))

\* a context as __init__ leaves it, as in a process that loads a model anew
FreshContext ==
    [name |-> "a", path |-> PyStr("/a"), last_context |-> PyStr(""),
     components |-> EmptyMap, component_paths |-> EmptyMap,
     commands |-> EmptyMap, attrs |-> EmptyMap, json_ops |-> <<>>,
     json_components |-> <<>>, json_commands |-> <<>>]

LoadFromDir(self, directory) ==
    \E r \in {load_from_dir(ctx[self], ResolverState, disk[directory])} :
        /\ ctx' = [ctx EXCEPT ![self] = r.c]
        /\ SetResolver(r.st)
        /\ out' = [NoOut EXCEPT !.op = "load_from_dir", !.raised = r.raised,
                                !.err = r.err, !.self = self,
                                !.model = directory, !.events = r.events]
        /\ UNCHANGED <<contexts, current_path, last, made, stack, disk>>

LoadFromDirAny ==
    \E self \in 1..Len(ctx) : \E directory \in 1..Len(disk) :
        LoadFromDir(self, directory)

\* self._make_op(op_spec), op_spec the tree-th of the descriptors OpTrees
MakeOp(self, tree, op_spec) ==
    \E r \in {make_op(op_spec, Progress(ctx[self], ResolverState))} :
        /\ SetResolver(r.st)
        /\ out' = [NoOut EXCEPT !.op = "_make_op", !.raised = r.raised,
                                !.err = r.err, !.self = self,
                                !.tree = tree, !.active = get_current_context,
                                !.events = r.events, !.ret = r.ret,
                                !.bound = r.bound]
        /\ UNCHANGED <<contexts, current_path, ctx, last, made, stack, disk>>

(***************************************************************************)
(* Inputs of the save and load operations                                  *)
(***************************************************************************)
\* hyperparameter names
HpNames == {"h", "g"}

\* positional arguments: none, or a string and a tuple
HpArgs == {<<>>, <<PyStr("h"), PyTuple([k \in {"0"} |-> PyInt(1)])>>}

\* parameter_map arguments
HpMaps == {PyDict([k \in {"alpha"} |-> PyStr("h")]),
           PyDict([k \in {"alpha", "beta"} |->
                      IF k = "alpha" THEN PyStr("h") ELSE PyStr("g")])}

\* keyword arguments: alpha, beta or no beta, a parameter_map or none
HpKwargs ==
    {[k \in D |-> CASE k = "alpha" -> alpha
                    [] k = "beta" -> PyStr("h")
                    [] OTHER -> pm] :
        alpha \in {PyNone, PyInt(1), PyInt(2), PyObj(7)}, pm \in HpMaps,
        D \in {{"alpha"} \cup O : O \in SUBSET {"beta", "parameter_map"}}}

\* the components of a model are registered with hyperparameter maps, each
\* path once
RegisterComponentHp ==
    \E self \in 1..Len(ctx) : \E component \in {Comp1, Comp3} :
        \E args \in HpArgs : \E kwargs \in HpKwargs :
            /\ component.path \notin DOMAIN ctx[self].component_paths
            /\ RegisterComponent(self, component, args, kwargs)

(***************************************************************************)
(* Model directories found on disk                                         *)
(***************************************************************************)
\* a descriptor of components.json
Descriptor(c_path, class, kwargs) ==
    [key |-> c_path,
     obj |-> [class |-> class, args |-> <<>>, kwargs |-> kwargs]]

\* a descriptor of ops.json
OpSpec(class) ==
    [class |-> class, sources |-> <<Ref("c1.out"), Ref("c2.out")>>,
     destination |-> PyStr("c1.in")]

\* an entry of commands.json for a command class
Static(c_name, class, names) ==
    [key |-> c_name,
     obj |-> [keys |-> {"class", "components", "args", "kwargs"},
              class |-> class, components |-> names, args |-> <<>>,
              kwargs |-> [k \in {"clamp_name"} |-> PyStr("x")],
              compile_key |-> ""]]

\* an entry of commands.json for a compiled command
Dynamic(c_name, names) ==
    [key |-> c_name,
     obj |-> [keys |-> {"class", "components", "compile_key"},
              class |-> "dynamic_compiled", components |-> names,
              args |-> <<>>, kwargs |-> EmptyMap, compile_key |-> "advance"]]

Stored(components, ops, commands) ==
    [NoModel EXCEPT !.complete = TRUE, !.components = components,
                    !.keys = {"components"}, !.ops = ops,
                    !.commands = commands, !.registered = components]

\* two components that share a hyperparameter, two ops, two commands
GoodModel ==
    [Stored(<<Descriptor("/a/c1", "Foo", [k \in {"alpha"} |-> PyStr("h")]),
              Descriptor("/a/c2", "Foo", EmptyMap)>>,
            <<OpSpec("Add"), OpSpec("Mul")>>,
            <<Static("run", "Multiclamp", <<"c1", "c2">>),
              Dynamic("adv", <<"c1", "c2">>)>>)
     EXCEPT !.keys = {"components", "hyperparameters"},
            !.hyperparameters = [k \in {"h"} |-> PyInt(1)],
            !.order = <<"h">>]

\* commands that name a component the document does not hold
MissingOfTwo ==
    Stored(<<Descriptor("/a/c1", "Foo", EmptyMap)>>, <<OpSpec("Add")>>,
           <<Static("run", "Multiclamp", <<"c1", "zz">>),
             Dynamic("adv", <<"c1", "zz">>)>>)

MissingOfOne ==
    Stored(<<Descriptor("/a/c1", "Foo", EmptyMap)>>, <<OpSpec("Add")>>,
           <<Static("run", "Multiclamp", <<"zz">>),
             Dynamic("adv", <<"c1", "c1">>)>>)

\* a class no imported module defines, in each of the three documents
BadComponent ==
    Stored(<<Descriptor("/a/c1", "Bar", EmptyMap),
             Descriptor("/a/c2", "Foo", EmptyMap)>>,
           <<OpSpec("Add")>>, <<>>)

BadOp ==
    Stored(<<Descriptor("/a/c2", "Foo", EmptyMap)>>,
           <<OpSpec("Mul"), OpSpec("Nope"), OpSpec("Add")>>,
           <<Dynamic("adv", <<"c2", "c2">>)>>)

BadCommand ==
    Stored(<<Descriptor("/a/c1", "Foo", EmptyMap),
             Descriptor("/a/c2", "Foo", EmptyMap)>>,
           <<OpSpec("Mul")>>,
           <<Static("run", "Bar", <<"c1", "c2">>),
             Dynamic("adv", <<"c1", "c2">>)>>)

\* a compiled command over a single component
SingleDynamic ==
    Stored(<<Descriptor("/a/c1", "Foo", EmptyMap)>>, <<OpSpec("Add")>>,
           <<Dynamic("adv", <<"c1">>)>>)

StoredModels ==
    <<GoodModel, MissingOfTwo, MissingOfOne, BadComponent, BadOp, BadCommand,
      SingleDynamic>>

(***************************************************************************)
(* Op descriptors                                                          *)
(***************************************************************************)
Op(class, sources, destination) ==
    [class |-> class, sources |-> sources, destination |-> destination]

\* Mul of two compartments, to be used as a source
Inner == Op("Mul", <<Ref("c1.out"), Ref("c2.out")>>, PyNone)

\* the descriptors evaluated: flat and nested, with and without destination,
\* a nested one that has a destination of its own, one of an unknown class
OpTrees ==
    <<Op("Add", <<Ref("c1.out"), Ref("c2.out")>>, PyStr("c1.in")),
      Op("Add", <<Ref("c1.out"), Ref("c2.out")>>, PyNone),
      Op("Add", <<Nested(Inner), Ref("c2.out")>>, PyStr("c1.in")),
      Op("Add", <<Ref("c2.in"),
                  Nested(Op("Mul", <<Nested(Inner), Ref("c1.in")>>, PyNone))>>,
         PyNone),
      Op("Add", <<Nested(Op("Mul", <<Ref("c1.out")>>, PyStr("c2.in"))),
                  Ref("c2.out")>>, PyStr("c1.in")),
      Op("Add", <<Ref("c1.out"), Nested(Op("Nope", <<>>, PyNone))>>,
         PyStr("c1.in"))>>

MakeOpAny ==
    \E self \in 1..Len(ctx) : \E tree \in 1..Len(OpTrees) :
        MakeOp(self, tree, OpTrees[tree])

(***************************************************************************)
(* Specifications                                                          *)
(***************************************************************************)
\* the resolver before any request, and no model saved yet
InitStore ==
    /\ Loaded_Modules = EmptyMap
    /\ Loaded_Attributes = EmptyMap
    /\ sys_modules = StartModules
    /\ disk = <<>>
    /\ out = NoOut

Init ==
    /\ contexts = EmptyMap
    /\ current_path = PyStr("")
    /\ ctx = <<>>
    /\ last = NoResult
    /\ made = EmptyMap
    /\ stack = <<>>
    /\ steps = 0
    /\ InitStore

\* constructions, enters and exits in any order
NextScope ==
    (ConstructAny \/ EnterAny \/ ExitAny) /\ UNCHANGED <<steps, store>>

SpecScope == Init /\ [][NextScope]_vars

\* constructions and properly nested with-blocks
NextNested ==
    (ConstructAny \/ EnterBlock \/ ExitBlock) /\ UNCHANGED <<steps, store>>

SpecNested == Init /\ [][NextNested]_vars

\* the state after Context("a") at the top level
InitOne ==
    /\ contexts = [k \in {"/a"} |-> 1]
    /\ current_path = PyStr("")
    /\ ctx = <<[name |-> "a", path |-> PyStr("/a"),
                last_context |-> PyStr(""), components |-> EmptyMap,
                component_paths |-> EmptyMap, commands |-> EmptyMap,
                attrs |-> EmptyMap, json_ops |-> <<>>,
                json_components |-> <<>>, json_commands |-> <<>>]>>
    /\ last = [NoResult EXCEPT !.op = "construct", !.name = "a", !.inst = 1]
    /\ made = [k \in {<<"", "a">>} |-> 1]
    /\ stack = <<>>
    /\ steps = 0

InitContext == InitOne /\ InitStore

\* the state after Context("a") and Context("b") at the top level
InitTwo ==
    /\ contexts = [k \in {"/a", "/b"} |-> IF k = "/a" THEN 1 ELSE 2]
    /\ current_path = PyStr("")
    /\ ctx = <<[name |-> "a", path |-> PyStr("/a"),
                last_context |-> PyStr(""), components |-> EmptyMap,
                component_paths |-> EmptyMap, commands |-> EmptyMap,
                attrs |-> EmptyMap, json_ops |-> <<>>,
                json_components |-> <<>>, json_commands |-> <<>>],
               [name |-> "b", path |-> PyStr("/b"),
                last_context |-> PyStr(""), components |-> EmptyMap,
                component_paths |-> EmptyMap, commands |-> EmptyMap,
                attrs |-> EmptyMap, json_ops |-> <<>>,
                json_components |-> <<>>, json_commands |-> <<>>]>>
    /\ last = [NoResult EXCEPT !.op = "construct", !.name = "b", !.inst = 2]
    /\ made = [k \in {<<"", "a">>, <<"", "b">>} |->
                  IF k = <<"", "a">> THEN 1 ELSE 2]
    /\ stack = <<>>
    /\ steps = 0
    /\ InitStore

\* the same context in a process that finds model directories on disk
InitStored ==
    /\ InitOne
    /\ Loaded_Modules = EmptyMap
    /\ Loaded_Attributes = EmptyMap
    /\ sys_modules = StartModules
    /\ disk = StoredModels
    /\ out = NoOut

\* the components of one context: add_component and get_components, next to
\* the commands and the build-spec they must leave alone
NextComponents ==
    /\ \/ AddComponentAny
       \/ GetComponentsAny
       \/ AddCommandAny
       \/ RegisterComponentPlain
       \/ RegisterOpAny
    /\ UNCHANGED <<steps, store>>

SpecComponents == InitContext /\ [][NextComponents]_vars

\* the component log of one context: register_component
NextRegister ==
    /\ \/ RegisterComponentArgs
       \/ RegisterComponentKwargs
       \/ RegisterComponentPlain
    /\ UNCHANGED <<steps, store>>

SpecRegister == InitContext /\ [][NextRegister]_vars

\* every operation, for runs of at most MaxSteps operations
Next ==
    /\ steps < MaxSteps
    /\ steps' = steps + 1
    /\ \/ ConstructAny
       \/ EnterAny
       \/ ExitAny
       \/ GetComponentsAny
       \/ AddComponentAny
       \/ AddCommandAny
       \/ RegisterComponentFew
       \/ RegisterCommandAny
       \/ RegisterOpAny
       \/ CompileCommandKeyAny
    /\ UNCHANGED store

Spec == Init /\ [][Next]_vars

\* a model is built, saved and loaded again
NextSave ==
    \/ RegisterComponentHp /\ UNCHANGED <<steps, store>>
    \/ SaveToJsonAny /\ UNCHANGED steps
    \/ LoadFromDirAny /\ UNCHANGED steps

SpecSave == InitContext /\ [][NextSave]_vars

\* stored models are loaded, next to components added by hand
NextLoad ==
    \/ LoadFromDirAny /\ UNCHANGED steps
    \/ AddComponentAny /\ UNCHANGED <<steps, store>>

SpecLoad == InitStored /\ [][NextLoad]_vars

\* the requests made of the resolver
NextResolver ==
    /\ \/ LoadModuleAny
       \/ LoadAttributeAny
       \/ LoadFromPathAny
    /\ UNCHANGED steps

SpecResolver == InitContext /\ [][NextResolver]_vars

\* requests that can fail, made by callers and by loads of stored models
\* op descriptors are evaluated on contexts while with-blocks are entered
\* and left
NextOps ==
    \/ (EnterBlock \/ ExitBlock) /\ UNCHANGED <<steps, store>>
    \/ MakeOpAny /\ UNCHANGED steps

SpecOps == InitTwo /\ [][NextOps]_vars

NextFailure ==
    /\ \/ LoadModuleFew
       \/ LoadAttributeFew
       \/ LoadFromPathFew
       \/ LoadFromDirAny
    /\ UNCHANGED steps

SpecFailure == InitStored /\ [][NextFailure]_vars

(***************************************************************************)
(* Claims about the scope stack and the registry                           *)
(***************************************************************************)
\* C1: two constructions Context(n) made while the same path p is active
\* return the identical instance, whatever constructions, enters and exits
\* happened in between, and no second instance is allocated for the pair.
C1_Identity ==
    /\ (last.op = "construct" /\ ~last.raised) =>
          /\ <<last.cur.s, last.name>> \in DOMAIN made
          /\ last.inst = made[<<last.cur.s, last.name>>]
    /\ Len(ctx) = Cardinality(DOMAIN contexts)

\* C1 witness: Context("a") is constructed again at the top level and yields
\* the first instance, after a second context was created nested inside it.
C1_Witness ==
    /\ last.op = "construct" /\ last.name = "a" /\ last.cur.s = ""
    /\ last.inst = 1
    /\ Len(ctx) = 2 /\ ctx[2].path.s = "/a/b"

\* C2: the context obtained by Context(n) while p is the active path has the
\* path p + "/" + n, for any history of constructions, enters and exits.
C2_PathOfConstruction ==
    (last.op = "construct" /\ ~last.raised) =>
        ctx[last.inst].path = PyStr(last.cur.s \o "/" \o last.name)

\* C2 witness: Context("b") constructed while /a is active, /a having been
\* entered from inside itself before.
C2_Witness ==
    /\ last.op = "construct" /\ last.name = "b" /\ last.cur.s = "/a"
    /\ ctx[last.inst].path.s = "/a/b"
    /\ ctx[1].last_context.s = "/a"

\* C4: in a properly nested sequence of with-blocks, entering a context makes
\* its path current and leaving a block restores the path that was current
\* immediately before the matching enter.
C4_NestedRestore ==
    [][/\ Len(stack') = Len(stack) + 1 =>
             current_path' = ctx[stack'[Len(stack')].c].path
       /\ Len(stack') = Len(stack) - 1 =>
             current_path' = stack[Len(stack)].saved]_vars

\* every created context is registered under its own path, and the lookup of
\* the current path yields the innermost entered context
RegistryByPath ==
    /\ \A i \in 1..Len(ctx) :
          /\ ctx[i].path.s \in DOMAIN contexts
          /\ contexts[ctx[i].path.s] = i
    /\ stack # <<>> => get_current_context = stack[Len(stack)].c

\* C5: the registry is keyed by absolute path: every created context c is
\* registered under c.path, the lookup of the current path while c is the
\* innermost entered context yields c, and no entry is ever removed.
C5_RegistryByPath ==
    [][/\ RegistryByPath'
       /\ \A k \in DOMAIN contexts :
             k \in DOMAIN contexts' /\ contexts'[k] = contexts[k]]_vars

(***************************************************************************)
(* Claims about the operations of a context                                *)
(***************************************************************************)
\* C3: the path of a context keeps the value assigned at creation under every
\* operation (re-construction, enter, exit, add_component, add_command and
\* compile_command_key under any name, register_*).
C3_PathImmutable ==
    [][\A i \in 1..Len(ctx) : ctx'[i].path = ctx[i].path]_vars

\* C6: add_component of a name already present does not raise and leaves the
\* context (components, commands, build-spec) unchanged; of an absent name it
\* binds the name to the component; so a name stays bound to the first
\* component added under it.
C6_AddComponentKeepsFirst ==
    [][/\ last'.op = "add_component" =>
             /\ ~last'.raised
             /\ IF last'.comp.name \in DOMAIN ctx[last'.self].components
                THEN ctx'[last'.self] = ctx[last'.self]
                ELSE ctx'[last'.self].components[last'.comp.name] = last'.comp
       /\ \A i \in 1..Len(ctx) : \A n \in DOMAIN ctx[i].components :
             /\ n \in DOMAIN ctx'[i].components
             /\ ctx'[i].components[n] = ctx[i].components[n]]_vars

\* C6 witness: Comp2 was refused because Comp1 holds its name, in a context
\* that has a command and a build-spec entry.
C6_Witness ==
    /\ last.op = "add_component" /\ last.comp = Comp2
    /\ "c1" \in DOMAIN ctx[1].components /\ ctx[1].components["c1"] = Comp1
    /\ ctx[1].commands # EmptyMap
    /\ ctx[1].json_components # <<>>

\* C7: register_component for a component whose path already has a descriptor
\* leaves the whole build-spec unchanged, whatever its args and kwargs.
C7_RegisterIdempotent ==
    [][(/\ last'.op = "register_component"
        /\ last'.comp.path \in ItemKeys(ctx[last'.self].json_components)) =>
            /\ ctx'[last'.self].json_components
                  = ctx[last'.self].json_components
            /\ ctx'[last'.self].json_ops = ctx[last'.self].json_ops
            /\ ctx'[last'.self].json_commands
                  = ctx[last'.self].json_commands]_vars

\* C7 witness: Comp2 was registered with arguments although the descriptor of
\* its path was logged for Comp1 with other arguments.
C7_Witness ==
    /\ last.op = "register_component" /\ last.comp = Comp2
    /\ "/a/c1" \in ItemKeys(ctx[1].json_components)
    /\ LET o == ItemAt(ctx[1].json_components, "/a/c1")
       IN /\ o.class = "Foo"
          /\ o.args = <<>>
          /\ last.args = <<PyInt(1)>>
          /\ o.kwargs = EmptyMap
          /\ last.kwargs = MixedKwargs

\* C8: register_component does not raise on arguments json cannot encode; the
\* descriptor it stores keeps exactly the serializable keyword arguments, each
\* with its value, and exactly the serializable positional arguments in order.
C8_DroppedKeys ==
    [][(/\ last'.op = "register_component"
        /\ last'.comp.path \notin ItemKeys(ctx[last'.self].json_components))
       => /\ ~last'.raised
          /\ last'.comp.path \in ItemKeys(ctx'[last'.self].json_components)
          /\ LET o == ItemAt(ctx'[last'.self].json_components,
                             last'.comp.path)
                 kw == last'.kwargs
             IN /\ DOMAIN o.kwargs = {k \in DOMAIN kw : IsSerializable(kw[k])}
                /\ \A k \in DOMAIN o.kwargs : o.kwargs[k] = kw[k]
                /\ o.args = SelectSeq(last'.args, IsSerializable)]_vars

\* C8 witness: a call whose keyword beta holds a dict with an opaque object
\* inside and whose first positional argument is an opaque object.
C8_Witness ==
    /\ last.op = "register_component" /\ last.comp = Comp1
    /\ "/a/c1" \in ItemKeys(ctx[1].json_components)
    /\ ItemAt(ctx[1].json_components, "/a/c1").class = "Foo"
    /\ last.kwargs = [k \in KwKeys |->
                         IF k = "alpha" THEN PyInt(1)
                         ELSE PyDict([f \in {"f"} |-> PyObj(7)])]
    /\ ItemAt(ctx[1].json_components, "/a/c1").kwargs
          = [k \in {"alpha"} |-> PyInt(1)]
    /\ last.args = MixedArgs
    /\ ItemAt(ctx[1].json_components, "/a/c1").args = <<PyInt(1)>>

\* C9: get_components of one or more names does not raise when a name is
\* unknown: it returns the components found, in request order (the single
\* component when one name was asked).
C9_GetComponentsNoRaise ==
    (last.op = "get_components" /\ Len(last.names) >= 1) =>
        /\ ~last.raised
        /\ last.comps = Resolved(ctx[last.self], last.names)
        /\ Len(last.names) = 1 => last.kind = "one"

\* C10: after compile_command_key the command is in the commands map under
\* its name and bound as that attribute, as add_command would leave it, and
\* the commands log holds the dynamic_compiled descriptor under the name.
C10_CompileRegisters ==
    last.op = "compile_command_key" =>
        LET c == ctx[last.self]
        IN /\ last.name \in DOMAIN c.commands
           /\ c.commands[last.name] = last.val
           /\ GetAttr(c, last.name) = last.val
           /\ last.name \in ItemKeys(c.json_commands)
           /\ ItemAt(c.json_commands, last.name)
                 = DynamicDescriptor(last.comps, last.key)

\* C17: after a successful load_module(k) or load_attribute(k, ...) the
\* result is held by the respective cache under the requested key k itself,
\* so that the same request is next answered from the cache with that object
C17_MemoizedByKey ==
    /\ (out.op = "load_module" /\ ~out.raised)
          => /\ out.path \in DOMAIN Loaded_Modules
             /\ Loaded_Modules[out.path] = out.mod
    /\ (out.op = "load_attribute" /\ ~out.raised)
          => /\ out.name \in DOMAIN Loaded_Attributes
             /\ Loaded_Attributes[out.name] = out.attr

\* the (component, keyword) pairs a build-spec maps to the hyperparameter h
Pairs(items, h) ==
    {p \in (1..Len(items)) \X KwKeys :
        /\ HasParameterMap(items[p[1]].obj.kwargs)
        /\ p[2] \in DOMAIN items[p[1]].obj.kwargs["parameter_map"].d
        /\ items[p[1]].obj.kwargs["parameter_map"].d[p[2]] = PyStr(h)}

\* every pair of P holds a value
AllHeld(items, P) == \A p \in P : p[2] \in DOMAIN items[p[1]].obj.kwargs

\* the pairs of P all hold the same value
Identical(items, P) ==
    /\ AllHeld(items, P)
    /\ \A p, q \in P :
          items[p[1]].obj.kwargs[p[2]] = items[q[1]].obj.kwargs[q[2]]

\* the model directory the last save or load worked on
TheModel == disk[out.model]

\* the build-spec the save of that directory started from
Registered == TheModel.registered

\* C11: when save_to_json has written components.json and all the pairs
\* mapped to a hyperparameter name h hold one value v, every such keyword is
\* written as the string h and the hyperparameters map holds h -> v
C11_MatchingCase ==
    (out.op = "save_to_json" /\ ~out.raised) =>
        \A h \in HpNames :
            LET P == Pairs(Registered, h)
            IN (P # {} /\ Identical(Registered, P)) =>
                  /\ "hyperparameters" \in TheModel.keys
                  /\ h \in DOMAIN TheModel.hyperparameters
                  /\ \A p \in P :
                        /\ TheModel.components[p[1]].obj.kwargs[p[2]]
                               = PyStr(h)
                        /\ TheModel.hyperparameters[h]
                               = Json(Registered[p[1]].obj.kwargs[p[2]])

\* two components share one value under h, and the save has run
C11_Witness ==
    /\ out.op = "save_to_json"
    /\ ~out.raised
    /\ \E p, q \in Pairs(Registered, "h") :
          /\ p[1] # q[1]
          /\ Identical(Registered, Pairs(Registered, "h"))
          /\ Registered[p[1]].obj.kwargs[p[2]] = PyInt(1)
          /\ TheModel.hyperparameters["h"] = PyInt(1)

\* C12: when the values grouped under a hyperparameter name h are not all
\* identical, whatever the values and the order of the components, the
\* written components.json has no hyperparameters entry for h and every
\* component mapped to h keeps its literal value
C12_MismatchCase ==
    (out.op = "save_to_json" /\ ~out.raised) =>
        \A h \in HpNames :
            LET P == Pairs(Registered, h)
            IN (AllHeld(Registered, P) /\ ~Identical(Registered, P)) =>
                  /\ h \notin DOMAIN TheModel.hyperparameters
                  /\ \A p \in P :
                        TheModel.components[p[1]].obj.kwargs[p[2]]
                            = Json(Registered[p[1]].obj.kwargs[p[2]])

\* C16: save_to_json completes without raising, and writes the three
\* documents, for every build-spec that register_component calls produce
C16_SaveCompletes ==
    out.op = "save_to_json" => (~out.raised /\ TheModel.complete)

\* no hyperparameter name groups values that differ or are missing
NoConflicts(items) ==
    \A h \in HpNames : Identical(items, Pairs(items, h))

\* the components a load constructed, in order
BuiltComponents == SelectSeq(out.events, LAMBDA e : e.kind = "component")

\* kwargs without the parameter_map entry
OwnKwargs(kwargs) == [k \in DOMAIN kwargs \ {"parameter_map"} |-> kwargs[k]]

\* C13: for a build-spec of JSON-serializable args and kwargs without
\* parameter-map conflicts, load_from_dir of what save_to_json wrote builds,
\* for every saved path, a component of the same class with the args and
\* kwargs that were registered
C13_RoundTrip ==
    (out.op = "load_from_dir" /\ NoConflicts(Registered)) =>
        /\ ~out.raised
        /\ Len(BuiltComponents) = Len(Registered)
        /\ \A i \in 1..Len(Registered) :
              /\ BuiltComponents[i].key = Registered[i].key
              /\ BuiltComponents[i].class.attr = Registered[i].obj.class
              /\ BuiltComponents[i].args = Registered[i].obj.args
              /\ BuiltComponents[i].kwargs
                     = OwnKwargs(Registered[i].obj.kwargs)

\* the keywords of a descriptor of components.json that hold the name of a
\* hyperparameter of that document
Indirected(model, kwargs) ==
    {k \in DOMAIN kwargs :
        /\ "hyperparameters" \in model.keys
        /\ kwargs[k].t = "str"
        /\ kwargs[k].s \in DOMAIN model.hyperparameters}

\* C20: the parameter_map a reconstructed component receives holds exactly
\* the entries keyword -> hyperparameter name of its own indirected keywords
C20_OwnParameterMap ==
    out.op = "load_from_dir" =>
        \A i \in 1..Len(BuiltComponents) :
            LET kwargs == TheModel.components[i].obj.kwargs
            IN BuiltComponents[i].parameter_map
                   = [k \in Indirected(TheModel, kwargs) |-> kwargs[k]]

\* what loading the saved directory into a new context, and saving that
\* context, produce
Reloaded == load_from_dir(FreshContext, ResolverState, TheModel)

Resaved == Bind(Reloaded, LAMBDA r : save_to_json(r.c))

\* two components hold the same value under one hyperparameter name
Shares(items) ==
    \E h \in HpNames : \E p, q \in Pairs(items, h) : p[1] # q[1]

\* C14: when components share parameter_map entries with equal values, the
\* save of the reloaded components, each registered with the kwargs and the
\* parameter_map its constructor received, completes and writes the
\* hyperparameters block of the first save
C14_ResaveSame ==
    (/\ out.op = "save_to_json"
     /\ ~out.raised
     /\ Shares(Registered)
     /\ NoConflicts(Registered)) =>
        /\ ~Reloaded.raised
        /\ ~Resaved.raised
        /\ Resaved.model.keys = TheModel.keys
        /\ Resaved.model.hyperparameters = TheModel.hyperparameters

\* the module key and the attribute name of the request that out describes
ReqModule(o) ==
    IF o.op = "load_attribute" /\ o.path = <<>> THEN o.name ELSE o.path

ReqAttr(o) == IF o.op = "load_attribute" THEN o.name ELSE o.path

\* no imported module's last segment matches the request's final segment
NoMatch(o) == Matches(ResolverState, ReqModule(o), o.match_case) = {}

\* the module the request resolves to: the cached one, else the first match
ResolvedModule(o) ==
    IF ReqModule(o) \in DOMAIN Loaded_Modules
    THEN Loaded_Modules[ReqModule(o)]
    ELSE LET m == Matches(ResolverState, ReqModule(o), o.match_case)
         IN sys_modules[CHOOSE i \in m : \A j \in m : i <= j]

\* the module resolved for an attribute request does not define it
Lacks(o) ==
    /\ o.op # "load_module"
    /\ ReqModule(o) \in DOMAIN Loaded_Modules \/ ~NoMatch(o)
    /\ ~HasAttr(ResolvedModule(o), Normalized(ReqAttr(o), o.match_case))

\* the request key is already in the cache the operation consults first
Cached(o) ==
    IF o.op = "load_module" THEN o.path \in DOMAIN Loaded_Modules
    ELSE ReqAttr(o) \in DOMAIN Loaded_Attributes

IsRequest(o) == o.op \in {"load_module", "load_attribute", "load_from_path"}

\* the descriptors of a model directory, in the order a load visits them
Classes(model) ==
    [i \in 1..Len(model.components) |-> model.components[i].obj.class]
        \o [i \in 1..Len(model.ops) |-> model.ops[i].class]
        \o [i \in 1..Len(model.commands) |-> model.commands[i].obj.class]

\* a descriptor class that the resolver cannot find
Unresolvable(class) ==
    LET o == [NoOut EXCEPT !.op = "load_from_path", !.path = <<class>>]
    IN /\ class # "dynamic_compiled"
       /\ ~Cached(o)
       /\ (ReqModule(o) \notin DOMAIN Loaded_Modules /\ NoMatch(o)) \/ Lacks(o)

\* a load stops at the first descriptor whose class cannot be resolved
LoadStopsAtFailure ==
    out'.op = "load_from_dir" =>
        LET D == Classes(disk[out'.model])
            bad == {i \in 1..Len(D) : Unresolvable(D[i])}
        IN bad # {} =>
              /\ out'.raised
              /\ \A i \in bad : Len(out'.events) < i

\* when absolute_path is false and no imported module matches, or the
\* resolved module lacks the attribute, the request raises an error that
\* carries the attempted name and both caches are left unchanged; a load
\* propagates the error and processes no further descriptor
C18_FailureAsClaimed ==
    [][/\ (/\ IsRequest(out')
           /\ ~out'.absolute_path
           /\ NoMatch(out') \/ Lacks(out'))
          => /\ out'.raised
             /\ out'.err # <<>>
             /\ Loaded_Modules' = Loaded_Modules
             /\ Loaded_Attributes' = Loaded_Attributes
       /\ LoadStopsAtFailure]_vars

\* C18: when absolute_path is false, the requested key is not cached, and
\* either no module is resolved (none cached under the module key, none
\* imported that matches) or the resolved module lacks the attribute, the
\* request raises an error that carries the attempted name and leaves the
\* attribute cache unchanged; the module cache is unchanged when no module
\* was resolved and gains the entry of the request's module key otherwise; a
\* load propagates the error and processes no further descriptor
C18_Failure ==
    [][/\ (/\ IsRequest(out')
           /\ ~out'.absolute_path
           /\ ~Cached(out')
           /\ (ReqModule(out') \notin DOMAIN Loaded_Modules /\ NoMatch(out'))
                 \/ Lacks(out'))
          => /\ out'.raised
             /\ out'.err # <<>>
             /\ Loaded_Attributes' = Loaded_Attributes
             /\ Loaded_Modules' =
                   IF Lacks(out')
                   THEN Put(Loaded_Modules, ReqModule(out'),
                            ResolvedModule(out'))
                   ELSE Loaded_Modules
       /\ LoadStopsAtFailure]_vars

\* a load stopped at a class whose module was found without the attribute
C18_Witness ==
    /\ out.op = "load_from_dir"
    /\ out.raised
    /\ out.err = <<"Bar">>
    /\ TheModel = BadCommand
    /\ Len(out.events) = 3
    /\ <<"Bar">> \in DOMAIN Loaded_Modules
    /\ <<"Bar">> \notin DOMAIN Loaded_Attributes

\* the events of one kind among those of the last load, in order
EventsOf(kind) == SelectSeq(out.events, LAMBDA e : e.kind = kind)

\* a command entry names a component the loading context does not hold
Missing(command) ==
    \E k \in 1..Len(command.components) :
        command.components[k] \notin DOMAIN ctx[out.self].components

\* C15: a commands.json entry that names a component the context does not
\* hold makes the load abort with an error, and that command is not built
C15_MissingComponentFatal ==
    out.op = "load_from_dir" =>
        \A i \in 1..Len(TheModel.commands) :
            Missing(TheModel.commands[i].obj) =>
                /\ out.raised
                /\ \A j \in 1..Len(out.events) :
                      ~(/\ out.events[j].kind = "command"
                        /\ out.events[j].key = TheModel.commands[i].key)

\* the phase an event belongs to
Phase(e) ==
    CASE e.kind = "component" -> 1
      [] e.kind = "op" -> 2
      [] OTHER -> 3

\* C19: a load builds all components, then realizes all ops in the order of
\* ops.json, then builds the commands: no op before the last component, no
\* command before the last op
C19_PhaseOrder ==
    out.op = "load_from_dir" =>
        /\ \A i, j \in 1..Len(out.events) :
              i < j => Phase(out.events[i]) <= Phase(out.events[j])
        /\ (EventsOf("op") # <<>> \/ EventsOf("command") # <<>>)
              => Len(EventsOf("component")) = Len(TheModel.components)
        /\ EventsOf("command") # <<>>
              => Len(EventsOf("op")) = Len(TheModel.ops)
        /\ Len(EventsOf("op")) <= Len(TheModel.ops)
        /\ \A k \in 1..Len(EventsOf("op")) :
              EventsOf("op")[k].key = TheModel.ops[k].class

\* a model of two components, two ops and two commands was loaded
C19_Witness ==
    /\ out.op = "load_from_dir"
    /\ ~out.raised
    /\ TheModel = GoodModel
    /\ Len(EventsOf("component")) = 2
    /\ Len(EventsOf("op")) = 2
    /\ Len(EventsOf("command")) = 2

\* the load got as far as the i-th entry of commands.json: the components
\* and the ops were all realized, and so were the entries before it
ReachedCommand(i) ==
    /\ Len(EventsOf("component")) = Len(TheModel.components)
    /\ Len(EventsOf("op")) = Len(TheModel.ops)
    /\ Len(EventsOf("command")) >= i - 1

\* the components the context holds under the names of a command entry
Named(command) ==
    [k \in 1..Len(command.components) |->
        ctx[out.self].components[command.components[k]]]

\* C21: a dynamic_compiled entry of commands.json whose component names all
\* exist in the context, however many (one or more) they are, is replayed:
\* the compiler is called with those components in recorded order and the
\* recorded compile_key, and its result is bound under the entry's name
C21_DynamicReplay ==
    out.op = "load_from_dir" =>
        \A i \in 1..Len(TheModel.commands) :
            LET c_name == TheModel.commands[i].key
                command == TheModel.commands[i].obj
            IN (/\ command.class = "dynamic_compiled"
                /\ Len(command.components) >= 1
                /\ ~Missing(command)
                /\ ReachedCommand(i))
               => /\ Len(EventsOf("command")) >= i
                  /\ EventsOf("command")[i].key = c_name
                  /\ EventsOf("command")[i].comps = command.components
                  /\ GetAttr(ctx[out.self], c_name)
                        = dynamic_compile(Named(command),
                                          command.compile_key)
                  /\ c_name \in ItemKeys(ctx[out.self].json_commands)
                  /\ ItemAt(ctx[out.self].json_commands, c_name)
                        = DynamicDescriptor(Named(command),
                                            command.compile_key)

RECURSIVE Builds(_, _, _)
\* v is the op object of descriptor d: built by d's class from d's sources
\* in listed order, a string as the compartment of the active context, a
\* nested descriptor as what its own evaluation returns
Builds(v, d, active) ==
    /\ v.t = "op"
    /\ v.class.attr = d.class
    /\ Len(v.sources) = Len(d.sources)
    /\ \A k \in 1..Len(d.sources) :
          IF d.sources[k].op = <<>>
          THEN v.sources[k]
                  = [NoValue EXCEPT !.t = "compartment", !.at = active,
                                    !.ref = d.sources[k].ref]
          ELSE IF d.sources[k].op[1].destination = PyNone
          THEN Builds(v.sources[k], d.sources[k].op[1], active)
          ELSE v.sources[k] = NoValue

RECURSIVE Destinations(_)
\* the number of descriptors with a destination in the tree d
Destinations(d) ==
    LET Below[k \in 0..Len(d.sources)] ==
            IF k = 0 THEN 0
            ELSE Below[k - 1] + (IF d.sources[k].op = <<>> THEN 0
                                 ELSE Destinations(d.sources[k].op[1]))
    IN Below[Len(d.sources)] + (IF d.destination = PyNone THEN 0 ELSE 1)

\* C22: _make_op on a descriptor without destination returns the op object
\* built from its realized sources (nested descriptors recursively, strings
\* as compartments of the active context, in listed order) and assigns
\* nothing; on a descriptor with a destination it binds that object into
\* the destination compartment of the active context and returns None
C22_MakeOp ==
    (out.op = "_make_op" /\ ~out.raised) =>
        LET d == OpTrees[out.tree]
        IN /\ Len(out.bound) = Destinations(d)
           /\ IF d.destination = PyNone
              THEN Builds(out.ret, d, out.active)
              ELSE /\ out.ret = NoValue
                   /\ out.bound[Len(out.bound)].dest
                         = [NoValue EXCEPT !.t = "compartment",
                                           !.at = out.active,
                                           !.ref = d.destination.s]
                   /\ Builds(out.bound[Len(out.bound)].obj, d, out.active)

\* a descriptor with a destination and a nested source without one was
\* evaluated on one context while another one was active
C22_Witness ==
    /\ out.op = "_make_op"
    /\ ~out.raised
    /\ out.tree = 3
    /\ out.active \notin {0, out.self}
    /\ out.ret = NoValue
    /\ Len(out.bound) = 1
    /\ out.bound[1].obj.sources[1].t = "op"

\* a resolver that has imported the same modules and answered no request
Unused == [mods |-> EmptyMap, attrs |-> EmptyMap, sys |-> sys_modules]

\* what the last attribute request yields when nothing was resolved before
Afresh ==
    IF out.op = "load_attribute"
    THEN load_attribute(Unused, out.name, out.path, out.match_case,
                        out.absolute_path)
    ELSE load_from_path(Unused, out.path, out.match_case, out.absolute_path)

\* C23: load_attribute (and load_from_path through it) returns the attribute
\* of the normalized name from the module its module_path resolves to,
\* whatever was resolved before: the outcome is the one the same request
\* has on a resolver with the same imported modules and empty caches
C23_HistoryFree ==
    out.op \in {"load_attribute", "load_from_path"} =>
        /\ out.raised = Afresh.raised
        /\ ~out.raised => out.attr = Afresh.attr

\* every key of the cache keeps its value in the step
KeepsEntries(cache, after) ==
    \A k \in DOMAIN cache : k \in DOMAIN after /\ after[k] = cache[k]

\* C24: the module cache and the attribute cache are write-once per key: no
\* resolver call changes or removes the value a key already maps to
C24_WriteOnce ==
    [][/\ KeepsEntries(Loaded_Modules, Loaded_Modules')
       /\ KeepsEntries(Loaded_Attributes, Loaded_Attributes')]_vars

\* the three documents of a model directory
Files(model) == [model EXCEPT !.registered = <<>>]

\* the build-spec of a context: its ops, commands and components logs
BuildSpec(c) == <<c.json_ops, c.json_commands, c.json_components>>

\* C25: a save_to_json that returns leaves the build-spec of its context as
\* it was (every component's kwargs and parameter_map included), so that
\* saving once more right away writes the same three documents
C25_SaveFrame ==
    [][(Len(disk') > Len(disk) /\ ~out'.raised) =>
          /\ BuildSpec(ctx'[out'.self]) = BuildSpec(ctx[out'.self])
          /\ Files(save_to_json(ctx'[out'.self]).model)
                = Files(disk'[Len(disk')])]_vars

====================================================================
